---- MODULE Spec2Model ----
(***************************************************************************)
(* Model of src/app.py: the Streamlit options scanner.                     *)
(*                                                                         *)
(* Units.  Money (closes, strikes, bids, asks) is an integer number of     *)
(* mills (1/1000 dollar), so that round(credit, 2) is a real rounding.     *)
(* The recorded Credit is in cents.  min_premium_pct is in hundredths of a *)
(* percent (0.5 % = 50).  implied volatility is a fraction in units of     *)
(* 1e-5, the recorded IV is in hundredths of a percent.  RSI is in         *)
(* hundredths.  Arithmetic is exact (the code's is binary floating point). *)
(*                                                                         *)
(* Two specifications share the definitions that model the code:           *)
(*   Spec       the script: sidebar, Run Scan, the loop over the watchlist *)
(*              (one call of fetch_yfinance_data per step);                *)
(*   SpecChain  one call of fetch_yfinance_data, its loop over the         *)
(*              expirations taken one stage at a time.                     *)
(***************************************************************************)
EXTENDS Integers, Sequences, FiniteSets, TLC

VARIABLES
    pc,             \* position of the script / of fetch_yfinance_data
    cfg,            \* the sidebar widgets' values
    tickers,        \* number of entries of the parsed watchlist
    idx,            \* number of tickers the scan loop has taken
    snap,           \* what the data provider handed back for the last ticker
    result,         \* the last value fetch_yfinance_data returned
    results, breakouts, calls, spreads,     \* the scan's collections
    price,          \* fetch_yfinance_data: close.iloc[-1]
    covered_calls,  \* fetch_yfinance_data: local list
    put_spreads,    \* fetch_yfinance_data: local list
    expn,           \* number of expirations of stock.options taken
    puts,           \* fetch_yfinance_data: the sorted puts of the expiration
    exp_dte,        \* fetch_yfinance_data: dte of the expiration
    exp_path        \* how the last expiration's body ended

vars == <<pc, cfg, tickers, idx, snap, result, results, breakouts, calls, spreads,
          price, covered_calls, put_spreads, expn, puts, exp_dte, exp_path>>

scanVars == <<tickers, idx, snap, result, results, breakouts, calls, spreads>>
fetchVars == <<price, covered_calls, put_spreads, expn, puts, exp_dte, exp_path>>

----------------------------------------------------------------------------
(* Bounds of the model *)

MaxTickers == 2
MaxExps == 2
MaxCalls == 2
MaxPuts == 3

(* Program constants *)

RsiWindow == 14
MinPopPct == 65
MinRatioPct == 33
PopOtmPct == 70
PopItmPct == 50
BreakoutPct == 98

----------------------------------------------------------------------------
(* Helpers *)

SeqsUpTo(S, n) == UNION {[1..k -> S] : k \in 0..n}

Max2(a, b) == IF a >= b THEN a ELSE b

RECURSIVE SeqMax(_)
SeqMax(s) == IF Len(s) = 1 THEN s[1] ELSE Max2(s[1], SeqMax(Tail(s)))

RECURSIVE SeqSum(_)
SeqSum(s) == IF s = <<>> THEN 0 ELSE s[1] + SeqSum(Tail(s))

LastN(s, n) == IF Len(s) <= n THEN s ELSE SubSeq(s, Len(s) - n + 1, Len(s))

(* numpy's round: x / m to the nearest integer, ties to the even one; x >= 0 *)
RoundHalfEven(x, m) ==
    LET q == x \div m
        r == x % m
    IN  IF 2 * r < m THEN q
        ELSE IF 2 * r > m THEN q + 1
        ELSE IF q % 2 = 0 THEN q ELSE q + 1

----------------------------------------------------------------------------
(* The option chain of one expiration, lines 46-91 *)

(* `if call.strike > price and call.bid >= price * (min_premium_pct / 100)`;
   a row whose bid is missing (None) raises when the bid is compared, which
   Python does only after strike > price held *)
CallRaises(call, p) == call.strike > p /\ call.bad

(* variant: the strike is not compared with the price *)
CallQualifiesNoStrike(call, p, pct) == call.bid * 10000 >= p * pct

CallQualifies(call, p, pct) ==
    call.strike > p /\ call.bid * 10000 >= p * pct

CoveredCallRecord(call, ctx) ==
    [Ticker |-> ctx.ticker, Expiration |-> ctx.exp, Strike |-> call.strike,
     Premium |-> call.bid, DTE |-> ctx.dte, Exit |-> ctx.dte]

(* for call in opt_chain.calls.itertuples(): ... ; acc is covered_calls *)
RECURSIVE CallsLoop(_, _, _, _)
CallsLoop(chain, i, ctx, acc) ==
    IF i > Len(chain) THEN [cc |-> acc, raised |-> FALSE]
    ELSE IF CallRaises(chain[i], ctx.price) THEN [cc |-> acc, raised |-> TRUE]
    ELSE IF CallQualifies(chain[i], ctx.price, ctx.pct)
         THEN CallsLoop(chain, i + 1, ctx, Append(acc, CoveredCallRecord(chain[i], ctx)))
         ELSE CallsLoop(chain, i + 1, ctx, acc)

(* puts.sort_values("strike"): quicksort, so rows of equal strike come out
   in any order *)
InsertAt(t, k, x) == SubSeq(t, 1, k - 1) \o <<x>> \o SubSeq(t, k, Len(t))

InsertSorted(t, x) ==
    {InsertAt(t, k, x) : k \in {j \in 1..(Len(t) + 1) :
                                   /\ j > 1 => t[j - 1].strike <= x.strike
                                   /\ j <= Len(t) => x.strike <= t[j].strike}}

RECURSIVE SortValues(_)
SortValues(s) ==
    IF s = <<>> THEN {<<>>}
    ELSE UNION {InsertSorted(t, s[1]) : t \in SortValues(Tail(s))}

Width(short, long) == long.strike - short.strike

Credit(short, long) == short.bid - long.ask

(* `if width > 0 and credit > 0 and (credit / width) >= 0.33` *)
(* variant: the reward-to-risk ratio is not tested *)
RatioOkNoRatio(short, long) ==
    /\ Width(short, long) > 0
    /\ Credit(short, long) > 0

RatioOk(short, long) ==
    /\ Width(short, long) > 0
    /\ Credit(short, long) > 0
    /\ Credit(short, long) * 100 >= MinRatioPct * Width(short, long)

(* `pop = 0.70 if short.strike < price else 0.50` *)
Pop(short, p) == IF short.strike < p THEN PopOtmPct ELSE PopItmPct

SpreadRecord(short, long, ctx) ==
    [Ticker |-> ctx.ticker, ShortStrike |-> short.strike, LongStrike |-> long.strike,
     Credit |-> RoundHalfEven(Credit(short, long), 10), Width |-> Width(short, long),
     DTE |-> ctx.dte, POP |-> Pop(short, ctx.price), Expiration |-> ctx.exp,
     Exit |-> ctx.dte]

(* variant: no break after the append *)
RECURSIVE PutsLoopNoBreak(_, _, _, _)
PutsLoopNoBreak(sorted, i, ctx, acc) ==
    IF i > Len(sorted) - 1 THEN [ps |-> acc, raised |-> FALSE]
    ELSE LET short == sorted[i]
             long == sorted[i + 1]
         IN  IF short.bad \/ long.bad THEN [ps |-> acc, raised |-> TRUE]
             ELSE IF RatioOk(short, long) /\ Pop(short, ctx.price) >= MinPopPct
                  THEN PutsLoopNoBreak(sorted, i + 1, ctx,
                                       Append(acc, SpreadRecord(short, long, ctx)))
                  ELSE PutsLoopNoBreak(sorted, i + 1, ctx, acc)

(* for i in range(len(puts) - 1): ... break; acc is put_spreads.  A row with
   no bid/ask (None) raises when the pair it is in computes its credit. *)
RECURSIVE PutsLoop(_, _, _, _)
PutsLoop(sorted, i, ctx, acc) ==
    IF i > Len(sorted) - 1 THEN [ps |-> acc, raised |-> FALSE]
    ELSE LET short == sorted[i]
             long == sorted[i + 1]
         IN  IF short.bad \/ long.bad THEN [ps |-> acc, raised |-> TRUE]
             ELSE IF RatioOk(short, long) /\ Pop(short, ctx.price) >= MinPopPct
                  THEN [ps |-> Append(acc, SpreadRecord(short, long, ctx)),
                        raised |-> FALSE]
                  ELSE PutsLoop(sorted, i + 1, ctx, acc)

----------------------------------------------------------------------------
(* Inputs: what the data provider may hand back *)

None == [ok |-> FALSE]

NoSnap == [fault |-> "unfetched"]

CallQuotes ==
    { [strike |-> 50000, bid |-> 250,  bad |-> FALSE],
      [strike |-> 51000, bid |-> 5000, bad |-> FALSE],
      [strike |-> 50000, bid |-> 0,    bad |-> TRUE] }

PutQuotes ==
    { [strike |-> 49000, bid |-> 1300, ask |-> 500, bad |-> FALSE],
      [strike |-> 49990, bid |-> 1000, ask |-> 70,  bad |-> FALSE],
      [strike |-> 50000, bid |-> 2000, ask |-> 996, bad |-> FALSE],
      [strike |-> 49990, bid |-> 0,    ask |-> 0,   bad |-> TRUE] }

CallChains == SeqsUpTo(CallQuotes, MaxCalls)
PutChains == SeqsUpTo(PutQuotes, MaxPuts)

(* what line 68 can yield for some non-empty opt_chain.puts *)
SortedPutChains == UNION {SortValues(chain) : chain \in PutChains \ {<<>>}}

Dtes == {20, 40}

ChainPrices == {49990, 50000}

DefaultCfg ==
    [price_range |-> "All", rsi_min |-> 0, rsi_max |-> 100, iv_min |-> 0,
     vol_min |-> 100000, breakout_days |-> 30, dte_days |-> 30,
     min_premium_pct |-> 50]

ChainCfgs ==
    {DefaultCfg, [DefaultCfg EXCEPT !.min_premium_pct = 1000]}

----------------------------------------------------------------------------
(* SpecChain: fetch_yfinance_data from line 42 to line 91 *)

Ctx == [ticker |-> 1, exp |-> expn + 1, dte |-> exp_dte, price |-> price,
        pct |-> cfg.min_premium_pct]

InitChain ==
    /\ pc = "exp_loop"
    /\ cfg \in ChainCfgs
    /\ price \in ChainPrices
    /\ covered_calls = <<>>
    /\ put_spreads = <<>>
    /\ expn = 0
    /\ puts = <<>>
    /\ exp_dte = 0
    /\ exp_path = "none"
    /\ tickers = 1
    /\ idx = 0
    /\ snap = NoSnap
    /\ result = None
    /\ results = <<>>
    /\ breakouts = <<>>
    /\ calls = <<>>
    /\ spreads = <<>>

(* line 48: strptime raises on a malformed expiration string *)
ExpBadDate ==
    /\ pc = "exp_loop"
    /\ expn < MaxExps
    /\ expn' = expn + 1
    /\ exp_path' = "raised"
    /\ UNCHANGED <<pc, cfg, price, covered_calls, put_spreads, puts, exp_dte>>
    /\ UNCHANGED scanVars

(* lines 48-50: `if dte > dte_days: continue` *)
ExpOverDte ==
    /\ pc = "exp_loop"
    /\ expn < MaxExps
    /\ \E d \in Dtes :
        /\ d > cfg.dte_days
        /\ exp_dte' = d
    /\ expn' = expn + 1
    /\ exp_path' = "over_dte"
    /\ UNCHANGED <<pc, cfg, price, covered_calls, put_spreads, puts>>
    /\ UNCHANGED scanVars

(* line 51: stock.option_chain(exp) raises *)
ExpChainFails ==
    /\ pc = "exp_loop"
    /\ expn < MaxExps
    /\ \E d \in Dtes :
        /\ d <= cfg.dte_days
        /\ exp_dte' = d
    /\ expn' = expn + 1
    /\ exp_path' = "raised"
    /\ UNCHANGED <<pc, cfg, price, covered_calls, put_spreads, puts>>
    /\ UNCHANGED scanVars

(* lines 53-54: `if opt_chain.calls.empty or opt_chain.puts.empty: continue` *)
ExpEmptySide ==
    /\ pc = "exp_loop"
    /\ expn < MaxExps
    /\ \E d \in Dtes :
        /\ d <= cfg.dte_days
        /\ exp_dte' = d
    /\ expn' = expn + 1
    /\ exp_path' = "empty_side"
    /\ UNCHANGED <<pc, cfg, price, covered_calls, put_spreads, puts>>
    /\ UNCHANGED scanVars

(* lines 48-66: an expiration within dte_days with both sides present; the
   loop over the calls *)
ExpCalls ==
    /\ pc = "exp_loop"
    /\ expn < MaxExps
    /\ \E d \in Dtes, chain \in CallChains \ {<<>>} :
        /\ d <= cfg.dte_days
        /\ exp_dte' = d
        /\ LET r == CallsLoop(chain, 1, [Ctx EXCEPT !.dte = d], covered_calls)
           IN  /\ covered_calls' = r.cc
               /\ IF r.raised
                  THEN /\ pc' = "exp_loop"
                       /\ expn' = expn + 1
                       /\ exp_path' = "raised"
                  ELSE /\ pc' = "puts_loop"
                       /\ expn' = expn
                       /\ exp_path' = "calls_done"
    /\ UNCHANGED <<cfg, price, put_spreads, puts>>
    /\ UNCHANGED scanVars

(* lines 68-89: sort the puts, the loop over the adjacent pairs *)
ExpPuts ==
    /\ pc = "puts_loop"
    /\ \E sorted \in SortedPutChains :
        /\ puts' = sorted
        /\ LET r == PutsLoop(sorted, 1, Ctx, put_spreads)
           IN  /\ put_spreads' = r.ps
               /\ exp_path' = IF r.raised THEN "raised" ELSE "done"
    /\ pc' = "exp_end"
    /\ expn' = expn + 1
    /\ UNCHANGED <<cfg, price, covered_calls, exp_dte>>
    /\ UNCHANGED scanVars

(* line 46 again: back to the head of the loop.  The sorted puts of the
   iteration that ended are dead: line 68 rebinds them before any read. *)
ExpNext ==
    /\ pc = "exp_end"
    /\ pc' = "exp_loop"
    /\ puts' = <<>>
    /\ UNCHANGED <<cfg, price, covered_calls, put_spreads, expn, exp_dte, exp_path>>
    /\ UNCHANGED scanVars

(* stock.options is exhausted *)
ExpLoopEnd ==
    /\ pc = "exp_loop"
    /\ pc' = "chain_done"
    /\ UNCHANGED <<cfg, price, covered_calls, put_spreads, expn, puts, exp_dte,
                   exp_path>>
    /\ UNCHANGED scanVars

NextChain ==
    \/ ExpBadDate
    \/ ExpOverDte
    \/ ExpChainFails
    \/ ExpEmptySide
    \/ ExpCalls
    \/ ExpPuts
    \/ ExpNext
    \/ ExpLoopEnd

SpecChain == InitChain /\ [][NextChain]_vars

----------------------------------------------------------------------------
(* fetch_yfinance_data, lines 19-111, as one function of the provider's data *)

NaN == [kind |-> "nan", v |-> 0]

Val(x) == [kind |-> "val", v |-> x]

(* lines 30-32: change = close.diff(); its first entry is NaN, for which
   both where() conditions are false, so gain and loss are 0 there *)
Gains(close) ==
    [i \in 1..Len(close) |->
        IF i > 1 /\ close[i] - close[i - 1] > 0 THEN close[i] - close[i - 1] ELSE 0]

Losses(close) ==
    [i \in 1..Len(close) |->
        IF i > 1 /\ close[i] - close[i - 1] < 0 THEN close[i - 1] - close[i] ELSE 0]

(* lines 33-36: rolling(window=14).mean() is NaN before 14 observations;
   x / 0 is inf for x > 0 and NaN for x = 0; 100 - 100 / (1 + inf) = 100 *)
Rsi(close) ==
    IF Len(close) < RsiWindow THEN NaN
    ELSE LET g == SeqSum(LastN(Gains(close), RsiWindow))
             l == SeqSum(LastN(Losses(close), RsiWindow))
         IN  IF l = 0 THEN (IF g = 0 THEN NaN ELSE Val(10000))
             ELSE Val(RoundHalfEven(10000 * g, g + l))

(* lines 38-40 *)
BreakoutHigh(close, days) == SeqMax(LastN(close, days))

Breakout(close, days) ==
    close[Len(close)] * 100 >= BreakoutHigh(close, days) * BreakoutPct

(* lines 46-91 for one expiration e, the k-th of stock.options: the set of
   lists the body can leave (the sort's order of equal strikes is open) *)
ProcessExpiration(e, k, t, p, c, cc, ps) ==
    LET ctx == [ticker |-> t, exp |-> k, dte |-> e.dte, price |-> p,
                pct |-> c.min_premium_pct]
    IN  IF e.kind = "baddate" THEN {[cc |-> cc, ps |-> ps]}
        ELSE IF e.dte > c.dte_days THEN {[cc |-> cc, ps |-> ps]}
        ELSE IF e.kind = "nochain" THEN {[cc |-> cc, ps |-> ps]}
        ELSE IF e.calls = <<>> \/ e.puts = <<>> THEN {[cc |-> cc, ps |-> ps]}
        ELSE LET r == CallsLoop(e.calls, 1, ctx, cc)
             IN  IF r.raised THEN {[cc |-> r.cc, ps |-> ps]}
                 ELSE {[cc |-> r.cc, ps |-> PutsLoop(sorted, 1, ctx, ps).ps] :
                          sorted \in SortValues(e.puts)}

(* lines 45-46: for exp in stock.options *)
RECURSIVE ExpLoop(_, _, _, _, _, _, _)
ExpLoop(chain, k, t, p, c, cc, ps) ==
    IF k > Len(chain) THEN {[cc |-> cc, ps |-> ps]}
    ELSE UNION {ExpLoop(chain, k + 1, t, p, c, o.cc, o.ps) :
                   o \in ProcessExpiration(chain[k], k, t, p, c, cc, ps)}

(* the statements of the outer try that raise, and `if hist.empty`: the
   provider's calls (history, info, options) and None * 100 at lines 93, 106 *)
ReturnsNone(s) ==
    \/ s.fault \in {"history", "info"}
    \/ s.hist = <<>>
    \/ s.fault = "options"
    \/ s.iv.kind = "none"
    \/ s.div.kind = "none"

(* info.get(key, 0) *)
InfoGet(x) == IF x.kind = "missing" THEN 0 ELSE x.v

(* lines 93-109; Sector, Market Cap and Earnings Date are copied from info
   and read by nothing, they are left out *)
ResultRecord(s, t, c, lists) ==
    [ok |-> TRUE,
     Ticker |-> t,
     Price |-> s.hist[Len(s.hist)],
     BreakoutHigh |-> BreakoutHigh(s.hist, c.breakout_days),
     Breakout |-> Breakout(s.hist, c.breakout_days),
     RSI |-> Rsi(s.hist),
     IV |-> RoundHalfEven(InfoGet(s.iv), 10),
     CoveredCalls |-> lists.cc,
     PutSpreads |-> lists.ps,
     DividendYield |-> RoundHalfEven(InfoGet(s.div), 10),
     AvgVolume |-> IF s.vol.kind = "missing" THEN Val(0) ELSE s.vol]

(* the values fetch_yfinance_data(ticker t, ...) can return on data s *)
Fetch(s, t, c) ==
    IF ReturnsNone(s) THEN {None}
    ELSE {ResultRecord(s, t, c, lists) :
             lists \in ExpLoop(s.chain, 1, t, s.hist[Len(s.hist)], c, <<>>, <<>>)}

----------------------------------------------------------------------------
(* The scan loop, lines 144-162 *)

PriceRanges == {"< $10", "$10 - $50", "$50 - $150", "$150+"}

(* lines 153-157: the condition of `continue` *)
PriceRangeSkips(pr, p) ==
    \/ (pr = "< $10" /\ p >= 10000)
    \/ (pr = "$10 - $50" /\ (p < 10000 \/ p > 50000))
    \/ (pr = "$50 - $150" /\ (p < 50000 \/ p > 150000))
    \/ (pr = "$150+" /\ p <= 150000)

(* variant: `result and` is missing, None["RSI"] raises *)
FilterOutcomeNoNoneCheck(r, c) ==
    IF ~r.ok THEN "raise"
    ELSE IF ~(r.RSI.kind = "val" /\ r.RSI.v >= c.rsi_min * 100) THEN "skip"
    ELSE IF ~(r.RSI.v <= c.rsi_max * 100) THEN "skip"
    ELSE IF ~(r.IV >= c.iv_min * 100) THEN "skip"
    ELSE IF r.AvgVolume.kind = "none" THEN "raise"
    ELSE IF ~(r.AvgVolume.v >= c.vol_min) THEN "skip"
    ELSE IF PriceRangeSkips(c.price_range, r.Price) THEN "skip"
    ELSE "append"

(* line 151, left to right: comparisons with NaN are false; a None volume
   raises TypeError when it is compared, outside any try *)
FilterOutcome(r, c) ==
    IF ~r.ok THEN "skip"
    ELSE IF ~(r.RSI.kind = "val" /\ r.RSI.v >= c.rsi_min * 100) THEN "skip"
    ELSE IF ~(r.RSI.v <= c.rsi_max * 100) THEN "skip"
    ELSE IF ~(r.IV >= c.iv_min * 100) THEN "skip"
    ELSE IF r.AvgVolume.kind = "none" THEN "raise"
    ELSE IF ~(r.AvgVolume.v >= c.vol_min) THEN "skip"
    ELSE IF PriceRangeSkips(c.price_range, r.Price) THEN "skip"
    ELSE "append"

----------------------------------------------------------------------------
(* Inputs of the scan *)

Flat(n, b) == [i \in 1..n |-> b]

(* flat, then one tick up to b: no loss in the window, RSI 100 *)
UpTo(n, b) == [i \in 1..n |-> IF i < n THEN b - 10 ELSE b]

Closes == {9990, 10000, 50000, 150000, 150010}

Hists ==
    {<<>>, Flat(RsiWindow - 1, 50000), UpTo(RsiWindow - 1, 50000),
     Flat(RsiWindow, 50000),
     Flat(RsiWindow - 1, 50000) \o <<48000>>,
     Flat(RsiWindow - 2, 50000) \o <<50010, 49990>>,
     Flat(RsiWindow - 2, 50000) \o <<49000, 50500, 50000>>,
     <<40000>> \o Flat(RsiWindow + 1, 50000)}
    \cup {UpTo(RsiWindow, b) : b \in Closes}

Missing == [kind |-> "missing", v |-> 0]
NoneVal == [kind |-> "none", v |-> 0]

IvVals == {Missing, NoneVal, Val(19994), Val(19996), Val(45000)}
VolVals == {Missing, NoneVal, Val(99999), Val(100000)}
DivVals == {Missing, NoneVal, Val(2000)}

GoodExp ==
    [kind |-> "ok", dte |-> 20,
     calls |-> <<[strike |-> 51000, bid |-> 5000, bad |-> FALSE]>>,
     puts |-> <<[strike |-> 49990, bid |-> 1000, ask |-> 70, bad |-> FALSE],
                [strike |-> 49000, bid |-> 1300, ask |-> 500, bad |-> FALSE]>>]

ScanChains ==
    {<<>>, <<GoodExp>>,
     <<[GoodExp EXCEPT !.kind = "baddate"], GoodExp>>,
     <<[GoodExp EXCEPT !.kind = "nochain"], [GoodExp EXCEPT !.dte = 40]>>,
     <<[GoodExp EXCEPT !.puts = <<>>],
       [GoodExp EXCEPT !.puts = <<[strike |-> 49000, bid |-> 0, ask |-> 0, bad |-> TRUE],
                                  [strike |-> 49990, bid |-> 1000, ask |-> 70, bad |-> FALSE]>>]>>}

BaseSnap ==
    [fault |-> "none", hist |-> UpTo(RsiWindow, 50000), iv |-> Val(45000),
     div |-> Missing, vol |-> Val(100000), chain |-> <<GoodExp>>]

Snapshots ==
    {[BaseSnap EXCEPT !.fault = f] : f \in {"history", "info", "options"}}
    \cup {[BaseSnap EXCEPT !.hist = h] : h \in Hists}
    \cup {[BaseSnap EXCEPT !.iv = x] : x \in IvVals}
    \cup {[BaseSnap EXCEPT !.vol = x] : x \in VolVals}
    \cup {[BaseSnap EXCEPT !.div = x] : x \in DivVals}
    \cup {[BaseSnap EXCEPT !.chain = x] : x \in ScanChains}

(* the sidebar, lines 133-141: one widget moved away from its default *)
ScanCfgs ==
    {DefaultCfg}
    \cup {[DefaultCfg EXCEPT !.price_range = x] : x \in PriceRanges}
    \cup {[DefaultCfg EXCEPT !.rsi_min = x] : x \in {60, 100}}
    \cup {[DefaultCfg EXCEPT !.rsi_max = x] : x \in {0, 40}}
    \cup {[DefaultCfg EXCEPT !.rsi_min = 60, !.rsi_max = 40]}
    \cup {[DefaultCfg EXCEPT !.iv_min = 20]}
    \cup {[DefaultCfg EXCEPT !.vol_min = 0]}
    \cup {[DefaultCfg EXCEPT !.breakout_days = 60]}
    \cup {[DefaultCfg EXCEPT !.dte_days = 7]}
    \cup {[DefaultCfg EXCEPT !.min_premium_pct = 1000]}

----------------------------------------------------------------------------
(* Spec: the script *)

Init ==
    /\ pc = "sidebar"
    /\ cfg = DefaultCfg
    /\ tickers = 0
    /\ idx = 0
    /\ snap = NoSnap
    /\ result = None
    /\ results = <<>>
    /\ breakouts = <<>>
    /\ calls = <<>>
    /\ spreads = <<>>
    /\ price = 0
    /\ covered_calls = <<>>
    /\ put_spreads = <<>>
    /\ expn = 0
    /\ puts = <<>>
    /\ exp_dte = 0
    /\ exp_path = "none"

(* lines 131-142: the user sets the widgets *)
SetSidebar ==
    /\ pc = "sidebar"
    /\ cfg = DefaultCfg
    /\ cfg' \in ScanCfgs \ {DefaultCfg}
    /\ UNCHANGED <<pc>>
    /\ UNCHANGED scanVars
    /\ UNCHANGED fetchVars

(* lines 142-147: the button; the watchlist is split into its tickers *)
RunScan ==
    /\ pc = "sidebar"
    /\ pc' = "scan"
    /\ tickers' \in 0..MaxTickers
    /\ idx' = 0
    /\ results' = <<>>
    /\ breakouts' = <<>>
    /\ calls' = <<>>
    /\ spreads' = <<>>
    /\ UNCHANGED <<cfg, snap, result>>
    /\ UNCHANGED fetchVars

(* lines 149-151: the ticker is fetched and the filter lets it go *)
ScanSkip ==
    /\ pc = "scan"
    /\ idx < tickers
    /\ \E s \in Snapshots :
        \E r \in Fetch(s, idx + 1, cfg) :
            /\ FilterOutcome(r, cfg) = "skip"
            /\ snap' = s
            /\ result' = r
    /\ idx' = idx + 1
    /\ UNCHANGED <<pc, cfg, tickers, results, breakouts, calls, spreads>>
    /\ UNCHANGED fetchVars

(* line 151: the comparison raises, the script stops *)
ScanRaise ==
    /\ pc = "scan"
    /\ idx < tickers
    /\ \E s \in Snapshots :
        \E r \in Fetch(s, idx + 1, cfg) :
            /\ FilterOutcome(r, cfg) = "raise"
            /\ snap' = s
            /\ result' = r
    /\ idx' = idx + 1
    /\ pc' = "crashed"
    /\ UNCHANGED <<cfg, tickers, results, breakouts, calls, spreads>>
    /\ UNCHANGED fetchVars

(* lines 158-162 *)
ScanAppend ==
    /\ pc = "scan"
    /\ idx < tickers
    /\ \E s \in Snapshots :
        \E r \in Fetch(s, idx + 1, cfg) :
            /\ FilterOutcome(r, cfg) = "append"
            /\ snap' = s
            /\ result' = r
            /\ results' = Append(results, r)
            /\ breakouts' = IF r.Breakout THEN Append(breakouts, r) ELSE breakouts
            /\ calls' = calls \o r.CoveredCalls
            /\ spreads' = spreads \o r.PutSpreads
    /\ idx' = idx + 1
    /\ UNCHANGED <<pc, cfg, tickers>>
    /\ UNCHANGED fetchVars

(* line 164: the loop is over, the tabs are drawn *)
ScanEnd ==
    /\ pc = "scan"
    /\ idx = tickers
    /\ pc' = "tabs"
    /\ UNCHANGED <<cfg>>
    /\ UNCHANGED scanVars
    /\ UNCHANGED fetchVars

Next ==
    \/ SetSidebar
    \/ RunScan
    \/ ScanSkip
    \/ ScanRaise
    \/ ScanAppend
    \/ ScanEnd

Spec == Init /\ [][Next]_vars

----------------------------------------------------------------------------
(* Claims about the option-chain search, checked under SpecChain *)

RecordsOf(list, e) == {k \in DOMAIN list : list[k].Expiration = e}

(* the acceptance conditions of lines 74-76, on the raw quotes of pair i *)
PairAccepted(s, i, p) ==
    /\ ~s[i].bad
    /\ ~s[i + 1].bad
    /\ s[i + 1].strike - s[i].strike > 0
    /\ s[i].bid - s[i + 1].ask > 0
    /\ (s[i].bid - s[i + 1].ask) * 100 >= 33 * (s[i + 1].strike - s[i].strike)
    /\ s[i].strike < p

(* C1, as stated: every record of the "Put Spreads" list has width > 0,
   credit > 0, credit / width >= 0.33 and POP >= 0.65 *)
C1_RecordMeetsThresholds ==
    \A k \in DOMAIN put_spreads :
        LET r == put_spreads[k]
        IN  /\ r.Width > 0
            /\ r.Credit > 0
            /\ r.Credit * 10 * 100 >= 33 * r.Width
            /\ r.POP >= 65

(* C1, amended: every record has width > 0 and POP >= 0.65 and comes from a
   pair whose unrounded credit short.bid - long.ask is > 0 with
   credit / width >= 0.33; the recorded Credit is that credit rounded to
   cents, so it is >= 0 and within half a cent of it *)
C1_AcceptedSpreadMeetsThresholds ==
    /\ \A k \in DOMAIN put_spreads :
            LET r == put_spreads[k]
            IN  /\ r.Width > 0
                /\ r.POP >= 65
                /\ r.Credit >= 0
                /\ (r.Credit * 10 + 5) * 100 >= 33 * r.Width
    /\ pc = "exp_end" =>
            \A k \in RecordsOf(put_spreads, expn) :
                \E i \in 1..(Len(puts) - 1) :
                    LET r == put_spreads[k]
                        credit == puts[i].bid - puts[i + 1].ask
                    IN  /\ r.ShortStrike = puts[i].strike
                        /\ r.LongStrike = puts[i + 1].strike
                        /\ r.Width = puts[i + 1].strike - puts[i].strike
                        /\ ~puts[i].bad /\ ~puts[i + 1].bad
                        /\ credit > 0
                        /\ credit * 100 >= 33 * r.Width
                        /\ r.Credit * 10 - credit <= 5
                        /\ credit - r.Credit * 10 <= 5

(* a spread was accepted whose credit of 0.004 is recorded as 0.00 *)
C1_Witness ==
    /\ pc = "exp_end"
    /\ exp_path = "done"
    /\ \E k \in RecordsOf(put_spreads, expn) : put_spreads[k].Credit = 0

(* C2: every covered-call record has Strike > price and
   Premium >= price * (min_premium_pct / 100) *)
C2_CoveredCallOtmAndPremium ==
    \A k \in DOMAIN covered_calls :
        /\ covered_calls[k].Strike > price
        /\ covered_calls[k].Premium * 10000 >= price * cfg.min_premium_pct

(* a call was recorded whose bid is exactly the minimum premium *)
C2_Witness ==
    \E k \in DOMAIN covered_calls :
        covered_calls[k].Premium * 10000 = price * cfg.min_premium_pct

(* C3, as stated: at most one covered-call record per ticker *)
C3_AtMostOneCoveredCall == Len(covered_calls) <= 1

(* C4: at most one put spread per expiration, and the one accepted is the
   first adjacent pair, in ascending strike order, that meets all acceptance
   conditions *)
C4_FirstQualifyingPair ==
    /\ \A e \in 1..expn : Cardinality(RecordsOf(put_spreads, e)) <= 1
    /\ pc = "exp_end" =>
            \A k \in RecordsOf(put_spreads, expn) :
                \E i \in 1..(Len(puts) - 1) :
                    /\ put_spreads[k].ShortStrike = puts[i].strike
                    /\ put_spreads[k].LongStrike = puts[i + 1].strike
                    /\ PairAccepted(puts, i, price)
                    /\ \A j \in 1..(i - 1) : ~PairAccepted(puts, j, price)

(* the second pair of three puts was accepted, the first one rejected *)
C4_Witness ==
    /\ pc = "exp_end"
    /\ Len(puts) = 3
    /\ ~PairAccepted(puts, 1, price)
    /\ \E k \in RecordsOf(put_spreads, expn) :
            /\ put_spreads[k].ShortStrike = puts[2].strike
            /\ put_spreads[k].LongStrike = puts[3].strike

(* C8, as stated: an expiration whose processing raised contributes no
   candidate to either list *)
C8_FailedExpirationContributesNothing ==
    exp_path = "raised" =>
        /\ RecordsOf(covered_calls, expn) = {}
        /\ RecordsOf(put_spreads, expn) = {}

----------------------------------------------------------------------------
(* Claims about the scan, checked under Spec *)

Fetched == snap.fault # "unfetched"

(* the provider's data make fetch_yfinance_data fail: a call of the provider
   raises, the history is empty, or a fundamental that is multiplied is None *)
TickerFails ==
    /\ Fetched
    /\ \/ snap.fault # "none"
       \/ snap.hist = <<>>
       \/ snap.iv.kind = "none"
       \/ snap.div.kind = "none"

InNoCollection(t) ==
    /\ \A k \in DOMAIN results : results[k].Ticker # t
    /\ \A k \in DOMAIN breakouts : breakouts[k].Ticker # t
    /\ \A k \in DOMAIN calls : calls[k].Ticker # t
    /\ \A k \in DOMAIN spreads : spreads[k].Ticker # t

(* C5: a ticker whose evaluation fails yields None, the loop goes on to the
   next ticker and the four collections are left as they were *)
C5_FailedTickerIsSkipped ==
    [][(idx' = idx + 1 /\ TickerFails')
          => /\ result' = None
             /\ pc' = "scan"
             /\ results' = results
             /\ breakouts' = breakouts
             /\ calls' = calls
             /\ spreads' = spreads]_vars

(* the second ticker failed after the first one was appended *)
C5_Witness ==
    /\ pc = "scan"
    /\ idx = 2
    /\ TickerFails
    /\ result = None
    /\ Len(results) = 1
    /\ Len(calls) >= 1

(* C6, as stated: a ticker whose RSI is undefined or whose implied
   volatility is missing from the fundamentals is in no collection *)
C6_UndefinedRsiOrIvNeverAdded ==
    (/\ Fetched
     /\ result.ok
     /\ snap.iv.kind = "missing" \/ result.RSI.kind = "nan")
        => InNoCollection(idx)

(* C7, as stated: a price passes the price-range filter under at most one of
   the four buckets *)
C7_BucketsMutuallyExclusive ==
    result.ok =>
        Cardinality({b \in PriceRanges : ~PriceRangeSkips(b, result.Price)}) <= 1

(* C9, as stated: when the 14-observation average loss is zero the RSI is 100 *)
C9_ZeroAvgLossGivesRsi100 ==
    (/\ Fetched
     /\ result.ok
     /\ Len(snap.hist) >= 14
     /\ \A i \in 2..Len(snap.hist) :
            i > Len(snap.hist) - 14 => snap.hist[i] >= snap.hist[i - 1])
        => result.RSI = Val(10000)

(* C10, as stated: with rsi_min > rsi_max no ticker is fetched *)
C10_InvalidBandRejected == cfg.rsi_min > cfg.rsi_max => idx = 0

====
